---- MODULE Spec2Model ----
(***************************************************************************)
(* A model of pcset.py: the PCSet class (pitch-class sets, integers 0..11). *)
(*                                                                         *)
(* PCSet instances are objects whose field _pcs refers to a Python set     *)
(* object.  add_pc and remove_pc change that set object in place; t_n and  *)
(* i_n bind _pcs to a newly built set object; difference, intersection and *)
(* union build a new instance around a newly built set object.  The model  *)
(* keeps the reference (ref) apart from the set object it refers to (heap) *)
(* so that sharing of a set object between two instances is expressible.   *)
(*                                                                         *)
(* The order in which a Python set is iterated is not defined by the       *)
(* language: every property that iterates _pcs takes the iteration order   *)
(* as a sequence, and the query actions choose it nondeterministically.    *)
(***************************************************************************)
EXTENDS Integers, Sequences, FiniteSets, TLC

VARIABLES
    ref,      \* ref[i]: the set object instance i's _pcs refers to; 0: i does not exist
    heap,     \* heap[c]: the integers held by set object c
    last,     \* the most recent call: method, receiver, argument(s), outcome
    ret,      \* the list returned by the most recent property read
    origin,   \* origin[i]: the call that produced instance i (history)
    hist,     \* the two most recent successful t_n / i_n calls (history)
    nops      \* number of calls made so far

vars == <<ref, heap, last, ret, origin, hist, nops>>

\* Bounds of the model.
MaxInst == 3   \* instances that may exist at once
MaxArgs == 2   \* arguments passed to one constructor call
MaxOps  == 4   \* calls in one run of the object machine
MaxCard == 3   \* cardinality of the set a single-instance run starts from
MaxOut  == 1   \* how far outside 0..11 an integer argument may lie

-----------------------------------------------------------------------------
(* Python built-ins used by the source, on sequences.                      *)

RECURSIVE insort(_, _)
insort(lst, x) ==
    IF lst = <<>> THEN <<x>>
    ELSE IF x < Head(lst) THEN <<x>> \o lst
    ELSE <<Head(lst)>> \o insort(Tail(lst), x)

\* sorted(iterable): the items in ascending order
RECURSIVE sorted(_)
sorted(it) == IF it = <<>> THEN <<>> ELSE insort(sorted(Tail(it)), Head(it))

RECURSIVE sum_to(_, _)
sum_to(lst, n) == IF n = 0 THEN 0 ELSE lst[n] + sum_to(lst, n - 1)

\* sum(iterable)
sum(lst) == sum_to(lst, Len(lst))

lesser(x, y) == IF x < y THEN x ELSE y

RECURSIVE min_to(_, _)
min_to(lst, n) ==
    IF n = 1 THEN lst[1] ELSE lesser(lst[n], min_to(lst, n - 1))

\* min(list) of a non-empty list (min of an empty list raises ValueError)
min(lst) == min_to(lst, Len(lst))

\* list.index(v): the 0-based position of the first occurrence of v
index(lst, v) ==
    (CHOOSE p \in 1..Len(lst) : lst[p] = v /\ \A q \in 1..(p - 1) : lst[q] # v) - 1

\* lst[k] for a 0-based k
item(lst, k) == lst[k + 1]

\* The orders in which a set object holding S may be iterated.
RECURSIVE Orders(_)
Orders(S) ==
    IF S = {} THEN {<<>>}
    ELSE UNION {{<<x>> \o o : o \in Orders(S \ {x})} : x \in S}

\* What a property read gives: a list, or a ValueError.
Returned(lst) == [status |-> "ok", value |-> lst]
Raised == [status |-> "ValueError", value |-> <<>>]

-----------------------------------------------------------------------------
(* Helper functions (private static methods)                               *)

\* Faulty variant: the upper limit is off by one.
check_n_upto12(n) ==
    IF 0 <= n /\ n <= 12
    THEN [raised |-> FALSE, value |-> n]
    ELSE [raised |-> TRUE, value |-> n]

\* _check_n: n itself, or a ValueError
check_n(n) ==
    IF 0 <= n /\ n <= 11
    THEN [raised |-> FALSE, value |-> n]
    ELSE [raised |-> TRUE, value |-> n]

\* Faulty variant: the two slices are joined the wrong way round.
rotate_list_swapped(input_list, front_index) ==
    SubSeq(input_list, 1, front_index)
        \o SubSeq(input_list, front_index + 1, Len(input_list))

rotate_list(input_list, front_index) ==
    SubSeq(input_list, front_index + 1, Len(input_list))
        \o SubSeq(input_list, 1, front_index)

-----------------------------------------------------------------------------
(* normal_order                                                            *)

normal_order_score(sorted_pcs, pc_a) ==
    sum([b \in 1..Len(sorted_pcs) |-> 2^((sorted_pcs[b] - pc_a) % 12)])

normal_order_scores(sorted_pcs) ==
    [a \in 1..Len(sorted_pcs) |-> normal_order_score(sorted_pcs, sorted_pcs[a])]

normal_order_pick(sorted_pcs, scores) ==
    IF scores = <<>> THEN Raised
    ELSE Returned(rotate_list(sorted_pcs, index(scores, min(scores))))

normal_order_of(sorted_pcs) ==
    normal_order_pick(sorted_pcs, normal_order_scores(sorted_pcs))

\* pcs: the elements of self._pcs in the order the set yields them
normal_order(pcs) == normal_order_of(sorted(pcs))

-----------------------------------------------------------------------------
(* prime_form                                                              *)

\* [sorted((pc_b - pc_a) % 12 for pc_b in pcs) for pc_a in pcs]
rotations(pcs) ==
    [a \in 1..Len(pcs) |-> sorted([b \in 1..Len(pcs) |-> (pcs[b] - pcs[a]) % 12])]

\* sum(1 << pc for pc in lst)
bit_score(lst) == sum([k \in 1..Len(lst) |-> 2^(lst[k])])

bit_scores(lists) == [k \in 1..Len(lists) |-> bit_score(lists[k])]

\* Faulty variant: the inversions are never chosen.
prime_form_choose_t(transpositions, inversions, t_scores, i_scores, min_t, min_i) ==
    item(transpositions, index(t_scores, min_t))

\* Faulty variant: the comparison is the wrong way round.
prime_form_choose_greater(transpositions, inversions, t_scores, i_scores, min_t, min_i) ==
    IF min_t >= min_i
    THEN item(transpositions, index(t_scores, min_t))
    ELSE item(inversions, index(i_scores, min_i))

prime_form_choose(transpositions, inversions, t_scores, i_scores, min_t, min_i) ==
    IF min_t <= min_i
    THEN item(transpositions, index(t_scores, min_t))
    ELSE item(inversions, index(i_scores, min_i))

prime_form_pick(transpositions, inversions, t_scores, i_scores) ==
    IF t_scores = <<>> \/ i_scores = <<>> THEN Raised
    ELSE Returned(prime_form_choose(transpositions, inversions, t_scores, i_scores,
                                    min(t_scores), min(i_scores)))

\* {-pc % 12 for pc in self._pcs}
inverted_pcs(S) == {(0 - pc) % 12 : pc \in S}

-----------------------------------------------------------------------------
(* interval_class_vector                                                   *)

\* itertools.combinations(pcs, 2), in the order it yields the pairs
RECURSIVE combinations_from(_, _, _)
combinations_from(pcs, a, b) ==
    IF a >= Len(pcs) THEN <<>>
    ELSE IF b > Len(pcs) THEN combinations_from(pcs, a + 1, a + 2)
    ELSE <<<<pcs[a], pcs[b]>>>> \o combinations_from(pcs, a, b + 1)

\* Faulty variant: every pair is yielded in both orders, as by
\* itertools.permutations(pcs, 2).
permutations(pcs) ==
    combinations_from(pcs, 1, 2)
        \o [k \in 1..Len(combinations_from(pcs, 1, 2)) |->
              <<combinations_from(pcs, 1, 2)[k][2], combinations_from(pcs, 1, 2)[k][1]>>]

combinations(pcs) == combinations_from(pcs, 1, 2)

fold_ivl(pc_ivl) == IF pc_ivl > 6 THEN (0 - pc_ivl) % 12 ELSE pc_ivl

\* result[k] += 1 for a Python index k (a negative k counts from the end)
increment(result, k) ==
    [result EXCEPT ![IF k < 0 THEN Len(result) + k + 1 ELSE k + 1] = @ + 1]

icv_step(result, pair) ==
    increment(result, fold_ivl((pair[2] - pair[1]) % 12) - 1)

RECURSIVE icv_loop(_, _, _)
icv_loop(pairs, k, result) ==
    IF k > Len(pairs) THEN result
    ELSE icv_loop(pairs, k + 1, icv_step(result, pairs[k]))

interval_class_vector(pcs) ==
    Returned(icv_loop(combinations(pcs), 1, <<0, 0, 0, 0, 0, 0>>))

-----------------------------------------------------------------------------
(* What a read of each property may return for a set object holding S,     *)
(* over every order in which S (and, in prime_form, the set inverted_pcs)  *)
(* may be iterated.  The results for the small sets are tabulated once.    *)

SmallSets == {S \in SUBSET (0..11) : Cardinality(S) <= MaxCard}

normal_order_reads(S) == {normal_order(o) : o \in Orders(S)}

\* The lists of rotations, with their scores, that the orders of S give.
scored_rotations(S) ==
    {<<rotations(o), bit_scores(rotations(o))>> : o \in Orders(S)}

\* prime_form(o, io) over the orders o of S and io of inverted_pcs(S), with
\* the rotations and scores of each order computed once.
prime_form_reads(S) ==
    {prime_form_pick(t[1], v[1], t[2], v[2]) :
        t \in scored_rotations(S), v \in scored_rotations(inverted_pcs(S))}

interval_class_vector_reads(S) == {interval_class_vector(o) : o \in Orders(S)}

NormalOrderTable == [S \in SmallSets |-> normal_order_reads(S)] @@ <<>>
PrimeFormTable == [S \in SmallSets |-> prime_form_reads(S)] @@ <<>>
IntervalClassVectorTable ==
    [S \in SmallSets |-> interval_class_vector_reads(S)] @@ <<>>

NormalOrderOf(S) ==
    IF S \in SmallSets THEN NormalOrderTable[S] ELSE normal_order_reads(S)

PrimeFormOf(S) ==
    IF S \in SmallSets THEN PrimeFormTable[S] ELSE prime_form_reads(S)

IntervalClassVectorOf(S) ==
    IF S \in SmallSets THEN IntervalClassVectorTable[S]
    ELSE interval_class_vector_reads(S)

-----------------------------------------------------------------------------
(* Instances and set objects                                               *)

Inst == 1..MaxInst
Cell == 1..MaxInst

Existing == {i \in Inst : ref[i] # 0}

\* The elements instance i holds.
View(i) == heap[ref[i]]

\* The instance a constructor call creates.
NewInst == CHOOSE i \in Inst \ Existing : \A j \in Inst \ Existing : i <= j

\* A set object no instance other than i refers to: what a set expression
\* evaluates to before its value is bound to i's _pcs.
FreshCell(r, i) ==
    CHOOSE c \in Cell :
        /\ \A j \in Inst \ {i} : r[j] # c
        /\ \A d \in 1..(c - 1) : \E j \in Inst \ {i} : r[j] = d

\* Set objects nothing refers to are gone.
Collect(r, h) == [c \in Cell |-> IF \E i \in Inst : r[i] = c THEN h[c] ELSE {}]

BindTo(i, c, S) ==
    /\ ref' = [ref EXCEPT ![i] = c]
    /\ heap' = Collect([ref EXCEPT ![i] = c], [heap EXCEPT ![c] = S])

\* i's _pcs is bound to a new set object holding S.
Bind(i, S) == BindTo(i, FreshCell(ref, i), S)

\* The set object i's _pcs refers to is changed in place to hold S.
Update(i, S) ==
    /\ ref' = ref
    /\ heap' = [heap EXCEPT ![ref[i]] = S]

Call(op, self, other, args, status, result) ==
    [op |-> op, self |-> self, other |-> other, args |-> args,
     status |-> status, result |-> result]

NoOrigin == [op |-> "none", self |-> 0, other |-> 0]

\* The integers and argument lists the calls are made with.
SomeInts == {0 - MaxOut, 0, 5, 11, 11 + MaxOut}
ArgLists == UNION {[1..k -> SomeInts] : k \in 0..MaxArgs}

-----------------------------------------------------------------------------
(* Magic methods                                                           *)

\* PCSet(*pcs)
Init_(pcs) ==
    /\ Existing # Inst
    /\ IF \E k \in 1..Len(pcs) : check_n(pcs[k]).raised
       THEN /\ last' = Call("__init__", 0, 0, pcs, "ValueError", 0)
            /\ UNCHANGED <<ref, heap, origin>>
       ELSE /\ Bind(NewInst, {check_n(pcs[k]).value : k \in 1..Len(pcs)})
            /\ last' = Call("__init__", NewInst, 0, pcs, "ok", NewInst)
            /\ origin' = [origin EXCEPT ![NewInst] =
                             [op |-> "__init__", self |-> 0, other |-> 0]]
    /\ ret' = <<>>

-----------------------------------------------------------------------------
(* Const methods (properties)                                              *)

Read(name, i, r) ==
    /\ last' = Call(name, i, 0, <<>>, r.status, 0)
    /\ ret' = r.value
    /\ UNCHANGED <<ref, heap, origin>>

NormalOrder(i) ==
    /\ i \in Existing
    /\ \E r \in NormalOrderOf(View(i)) : Read("normal_order", i, r)

PrimeForm(i) ==
    /\ i \in Existing
    /\ \E r \in PrimeFormOf(View(i)) : Read("prime_form", i, r)

IntervalClassVector(i) ==
    /\ i \in Existing
    /\ \E r \in IntervalClassVectorOf(View(i)) : Read("interval_class_vector", i, r)

-----------------------------------------------------------------------------
(* Non-const methods                                                       *)

\* Faulty variant: the integer is inserted before it is validated.
AddPc_late(i, pc) ==
    /\ i \in Existing
    /\ Update(i, View(i) \cup {pc})
    /\ last' = Call("add_pc", i, 0, <<pc>>,
                    IF check_n(pc).raised THEN "ValueError" ELSE "ok", 0)
    /\ ret' = <<>>
    /\ UNCHANGED origin

AddPc(i, pc) ==
    /\ i \in Existing
    /\ IF check_n(pc).raised
       THEN /\ last' = Call("add_pc", i, 0, <<pc>>, "ValueError", 0)
            /\ UNCHANGED <<ref, heap>>
       ELSE /\ Update(i, View(i) \cup {check_n(pc).value})
            /\ last' = Call("add_pc", i, 0, <<pc>>, "ok", 0)
    /\ ret' = <<>>
    /\ UNCHANGED origin

\* Faulty variant: the KeyError of set.remove is not caught.
RemovePc_uncaught(i, pc) ==
    /\ i \in Existing
    /\ IF pc \in View(i)
       THEN Update(i, View(i) \ {pc})
       ELSE UNCHANGED <<ref, heap>>
    /\ last' = Call("remove_pc", i, 0, <<pc>>,
                    IF pc \in View(i) THEN "ok" ELSE "KeyError", 0)
    /\ ret' = <<>>
    /\ UNCHANGED origin

\* set.remove raises KeyError for an absent item; remove_pc catches it
RemovePc(i, pc) ==
    /\ i \in Existing
    /\ IF pc \in View(i)
       THEN Update(i, View(i) \ {pc})
       ELSE UNCHANGED <<ref, heap>>
    /\ last' = Call("remove_pc", i, 0, <<pc>>, "ok", 0)
    /\ ret' = <<>>
    /\ UNCHANGED origin

Tn(i, n) ==
    /\ i \in Existing
    /\ IF check_n(n).raised
       THEN /\ last' = Call("t_n", i, 0, <<n>>, "ValueError", 0)
            /\ UNCHANGED <<ref, heap>>
       ELSE /\ Bind(i, {(pc + n) % 12 : pc \in View(i)})
            /\ last' = Call("t_n", i, 0, <<n>>, "ok", 0)
    /\ ret' = <<>>
    /\ UNCHANGED origin

\* Faulty variant: the subtraction is the wrong way round.
In_reversed(i, n) ==
    /\ i \in Existing
    /\ IF check_n(n).raised
       THEN /\ last' = Call("i_n", i, 0, <<n>>, "ValueError", 0)
            /\ UNCHANGED <<ref, heap>>
       ELSE /\ Bind(i, {(pc - n) % 12 : pc \in View(i)})
            /\ last' = Call("i_n", i, 0, <<n>>, "ok", 0)
    /\ ret' = <<>>
    /\ UNCHANGED origin

In(i, n) ==
    /\ i \in Existing
    /\ IF check_n(n).raised
       THEN /\ last' = Call("i_n", i, 0, <<n>>, "ValueError", 0)
            /\ UNCHANGED <<ref, heap>>
       ELSE /\ Bind(i, {(n - pc) % 12 : pc \in View(i)})
            /\ last' = Call("i_n", i, 0, <<n>>, "ok", 0)
    /\ ret' = <<>>
    /\ UNCHANGED origin

-----------------------------------------------------------------------------
(* Set methods                                                             *)

\* result = PCSet(); result._pcs = S; return result
NewResult(name, i, j, S) ==
    /\ Existing # Inst
    /\ Bind(NewInst, S)
    /\ last' = Call(name, i, j, <<>>, "ok", NewInst)
    /\ origin' = [origin EXCEPT ![NewInst] = [op |-> name, self |-> i, other |-> j]]
    /\ ret' = <<>>

Difference(i, j) ==
    /\ i \in Existing /\ j \in Existing
    /\ NewResult("difference", i, j, View(i) \ View(j))

Intersection(i, j) ==
    /\ i \in Existing /\ j \in Existing
    /\ NewResult("intersection", i, j, View(i) \cap View(j))

\* Faulty variant: the result is given self's set object, which is then
\* updated with other's elements.
Union_inplace(i, j) ==
    /\ i \in Existing /\ j \in Existing
    /\ Existing # Inst
    /\ ref' = [ref EXCEPT ![NewInst] = ref[i]]
    /\ heap' = [heap EXCEPT ![ref[i]] = View(i) \cup View(j)]
    /\ last' = Call("union", i, j, <<>>, "ok", NewInst)
    /\ origin' = [origin EXCEPT ![NewInst] = [op |-> "union", self |-> i, other |-> j]]
    /\ ret' = <<>>

Union(i, j) ==
    /\ i \in Existing /\ j \in Existing
    /\ NewResult("union", i, j, View(i) \cup View(j))

-----------------------------------------------------------------------------
(* The object machine: a program that creates instances and calls their    *)
(* methods, MaxOps calls in all.                                           *)

Counted == nops < MaxOps /\ nops' = nops + 1 /\ UNCHANGED hist

Init ==
    /\ ref = [i \in Inst |-> 0]
    /\ heap = [c \in Cell |-> {}]
    /\ last = Call("none", 0, 0, <<>>, "ok", 0)
    /\ ret = <<>>
    /\ origin = [i \in Inst |-> NoOrigin]
    /\ hist = <<>>
    /\ nops = 0

Next ==
    \/ \E pcs \in ArgLists : Counted /\ Init_(pcs)
    \/ \E i \in Inst : Counted /\ NormalOrder(i)
    \/ \E i \in Inst : Counted /\ PrimeForm(i)
    \/ \E i \in Inst : Counted /\ IntervalClassVector(i)
    \/ \E i \in Inst, pc \in SomeInts : Counted /\ AddPc(i, pc)
    \/ \E i \in Inst, pc \in SomeInts : Counted /\ RemovePc(i, pc)
    \/ \E i \in Inst, n \in SomeInts : Counted /\ Tn(i, n)
    \/ \E i \in Inst, n \in SomeInts : Counted /\ In(i, n)
    \/ \E i, j \in Inst : Counted /\ Difference(i, j)
    \/ \E i, j \in Inst : Counted /\ Intersection(i, j)
    \/ \E i, j \in Inst : Counted /\ Union(i, j)

Spec == Init /\ [][Next]_vars

-----------------------------------------------------------------------------
(* One instance, constructed from any set of at most MaxCard pitch classes: *)
(* the state after the constructor has returned.                           *)

InitSet ==
    /\ \E X \in SmallSets :
          heap = [c \in Cell |-> IF c = 1 THEN X ELSE {}]
    /\ ref = [i \in Inst |-> IF i = 1 THEN 1 ELSE 0]
    /\ last = Call("__init__", 1, 0, <<>>, "ok", 1)
    /\ ret = <<>>
    /\ origin = [i \in Inst |->
                   IF i = 1 THEN [op |-> "__init__", self |-> 0, other |-> 0]
                   ELSE NoOrigin]
    /\ hist = <<>>
    /\ nops = 0

\* Its properties are read.
NextFn ==
    \/ NormalOrder(1) /\ UNCHANGED <<hist, nops>>
    \/ PrimeForm(1) /\ UNCHANGED <<hist, nops>>
    \/ IntervalClassVector(1) /\ UNCHANGED <<hist, nops>>

SpecFn == InitSet /\ [][NextFn]_vars

\* hist keeps the two most recent t_n / i_n calls: the method, its argument
\* and the elements held before the call.
Push(h, e) == IF Len(h) < 2 THEN Append(h, e) ELSE <<h[2], e>>

Done(op, i, n) == [op |-> op, n |-> n, before |-> View(i)]

\* It is transposed and inverted by valid intervals and index numbers, and
\* its prime form is read.
NextSet ==
    \/ \E n \in 0..11 :
          Tn(1, n) /\ hist' = Push(hist, Done("t_n", 1, n)) /\ UNCHANGED nops
    \/ \E n \in 0..11 :
          In(1, n) /\ hist' = Push(hist, Done("i_n", 1, n)) /\ UNCHANGED nops
    \/ PrimeForm(1) /\ UNCHANGED <<hist, nops>>

SpecSet == InitSet /\ [][NextSet]_vars

-----------------------------------------------------------------------------
(* Definitions the properties below are stated with.  They are written     *)
(* from the mathematics, not from the methods above.                       *)

InRange(n) == n \in 0..11

\* The elements of a set of integers, ascending.
Ascending(S) ==
    CHOOSE s \in [1..Cardinality(S) -> S] :
        \A p, q \in 1..Cardinality(S) : p < q => s[p] < s[q]

\* The sum of 2^v over the members v of a set.
RECURSIVE Weight(_)
Weight(S) ==
    IF S = {} THEN 0
    ELSE LET v == CHOOSE w \in S : TRUE IN 2^v + Weight(S \ {v})

\* The pitch classes of S measured upward from a.
From(S, a) == {(b - a) % 12 : b \in S}

\* The prime-form candidates of S on the transposition side and on the
\* inversion side, each as the set of its values.
CandidatesT(S) == {From(S, a) : a \in S}
CandidatesI(S) == {From({(0 - pc) % 12 : pc \in S}, a) : a \in {(0 - pc) % 12 : pc \in S}}

LeastWeight(Cs) == CHOOSE w \in {Weight(c) : c \in Cs} : \A c \in Cs : w <= Weight(c)

IntervalClass(a, b) ==
    IF (b - a) % 12 <= (a - b) % 12 THEN (b - a) % 12 ELSE (a - b) % 12

UnorderedPairs(S) == {p \in SUBSET S : Cardinality(p) = 2}

PairClass(p) == LET a == CHOOSE x \in p : TRUE
                    b == CHOOSE y \in p : y # a
                IN IntervalClass(a, b)

Mutators == {"add_pc", "remove_pc", "t_n", "i_n"}
Combiners == {"union", "intersection", "difference"}

Combined(op, A, B) ==
    IF op = "union" THEN A \cup B
    ELSE IF op = "intersection" THEN A \cap B
    ELSE A \ B

\* The elements instance k holds after the step.
After(k) == heap'[ref'[k]]

\* The most recent successful t_n / i_n call and the one before it.
Recent == hist[Len(hist)]
Earlier == hist[Len(hist) - 1]

-----------------------------------------------------------------------------
(* C1.  After any sequence of calls from a successful construction,        *)
(* including calls that fail validation, every element stored in every     *)
(* instance is an integer in 0..11.                                        *)

C1_ElementsInRange ==
    \A i \in Existing : \A pc \in View(i) : pc \in Int /\ InRange(pc)

\* t_n(11) has wrapped the element 11 around to 10.
C1_Witness ==
    /\ last.op = "t_n" /\ last.status = "ok" /\ last.args = <<11>>
    /\ 10 \in View(last.self)

(* C2.  Validation happens before mutation: add_pc(n), t_n(n) and i_n(n)   *)
(* with n outside 0..11 fail with the ValueError and leave every instance  *)
(* as it was; a constructor call with any argument outside 0..11 fails and *)
(* produces no instance, even when other arguments are valid.              *)

C2_ValidationBeforeMutation ==
    [][/\ (last'.op \in {"add_pc", "t_n", "i_n"} /\ ~InRange(last'.args[1]))
            => /\ last'.status = "ValueError"
               /\ Existing' = Existing
               /\ \A k \in Existing : After(k) = View(k)
       /\ (last'.op = "__init__"
             /\ \E k \in 1..Len(last'.args) : ~InRange(last'.args[k]))
            => /\ last'.status = "ValueError"
               /\ last'.result = 0
               /\ Existing' = Existing
               /\ \A k \in Existing : After(k) = View(k)
      ]_vars

\* t_n was called on a non-empty instance with an interval out of range.
C2_Witness ==
    /\ last.op = "t_n" /\ last.status = "ValueError"
    /\ ~InRange(last.args[1])
    /\ View(last.self) # {}

(* C3.  Reading the properties of an empty instance never fails:           *)
(* normal_order and prime_form return the empty list and                   *)
(* interval_class_vector returns [0,0,0,0,0,0].                            *)

C3_EmptySetReads ==
    (last.op \in {"normal_order", "prime_form", "interval_class_vector"}
        /\ View(last.self) = {})
    => /\ last.status = "ok"
       /\ ret = IF last.op = "interval_class_vector"
                THEN <<0, 0, 0, 0, 0, 0>> ELSE <<>>

(* C4.  Prime form is invariant under transposition and inversion: for a   *)
(* non-empty X, the prime form read after t_n(n), and the one read after   *)
(* i_n(n) followed by t_n(m), is the prime form of X.                      *)

C4_PrimeFormInvariant ==
    (last.op = "prime_form" /\ Len(hist) >= 1 /\ Recent.op = "t_n")
    => /\ Recent.before # {}
            => \A r \in PrimeFormOf(Recent.before) :
                  last.status = "ok" /\ r.status = "ok" /\ ret = r.value
       /\ (Len(hist) = 2 /\ Earlier.op = "i_n" /\ Earlier.before # {})
            => \A r \in PrimeFormOf(Earlier.before) :
                  last.status = "ok" /\ r.status = "ok" /\ ret = r.value

\* {0,2,3} after i_n(3) and t_n(5): the prime form comes from the inversion.
C4_Witness ==
    /\ last.op = "prime_form" /\ Len(hist) = 2
    /\ Earlier = [op |-> "i_n", n |-> 3, before |-> {0, 2, 3}]
    /\ Recent.op = "t_n" /\ Recent.n = 5
    /\ ret = <<0, 1, 3>>

(* C5.  For a non-empty set, normal_order returns the ascending elements   *)
(* p0 < ... < p(k-1) rotated to begin at the first index whose score, the  *)
(* sum over all elements b of 2^((b - p_i) mod 12), is minimal; the output *)
(* holds each element exactly once.                                        *)

C5_NormalOrder ==
    (last.op = "normal_order" /\ View(last.self) # {})
    => LET S == View(last.self)
           k == Cardinality(S)
           P == Ascending(S)
           Score(p) == Weight(From(S, P[p]))
       IN /\ last.status = "ok"
          /\ Len(ret) = k
          /\ {ret[m] : m \in 1..k} = S
          /\ \E p \in 1..k :
                /\ \A q \in 1..k : Score(p) <= Score(q)
                /\ \A q \in 1..(p - 1) : Score(q) > Score(p)
                /\ \A m \in 1..k : ret[m] = P[((p - 1 + m - 1) % k) + 1]

\* The normal order of {0,10,11} starts at 10 and wraps around to 0.
C5_Witness ==
    /\ last.op = "normal_order" /\ View(last.self) = {0, 10, 11}
    /\ ret = <<10, 11, 0>>

(* C6.  interval_class_vector returns six counts; entry i (i = 1..6) is    *)
(* the number of unordered pairs {a, b} of distinct elements with          *)
(* min((b-a) mod 12, (a-b) mod 12) = i, whatever the order the set is      *)
(* iterated in; the entries sum to k(k-1)/2, and {0,6} gives [0,0,0,0,0,1].*)

C6_IntervalClassVector ==
    (last.op = "interval_class_vector")
    => LET S == View(last.self)
           k == Cardinality(S)
       IN /\ last.status = "ok"
          /\ Len(ret) = 6
          /\ \A c \in 1..6 :
                ret[c] = Cardinality({p \in UnorderedPairs(S) : PairClass(p) = c})
          /\ ret[1] + ret[2] + ret[3] + ret[4] + ret[5] + ret[6] = (k * (k - 1)) \div 2
          /\ S = {0, 6} => ret = <<0, 0, 0, 0, 0, 1>>
          /\ \A r \in IntervalClassVectorOf(S) : r = Returned(ret)

\* A set with a tritone and two other interval classes.
C6_Witness ==
    /\ last.op = "interval_class_vector" /\ View(last.self) = {0, 6, 11}
    /\ ret = <<1, 0, 0, 0, 1, 1>>

(* C7.  t_n(n) followed by t_n((12 - n) mod 12) restores the original      *)
(* elements, and so does i_n(n) followed by i_n(n).                        *)

C7_Inverses ==
    (Len(hist) = 2)
    => /\ (Earlier.op = "t_n" /\ Recent.op = "t_n"
             /\ Recent.n = (12 - Earlier.n) % 12)
            => View(1) = Earlier.before
       /\ (Earlier.op = "i_n" /\ Recent.op = "i_n" /\ Recent.n = Earlier.n)
            => View(1) = Earlier.before

\* {0,3,11} transposed by 5 and then by 7.
C7_Witness ==
    /\ Len(hist) = 2
    /\ Earlier = [op |-> "t_n", n |-> 5, before |-> {0, 3, 11}]
    /\ Recent = [op |-> "t_n", n |-> 7, before |-> {4, 5, 8}]
    /\ last.op = "t_n"

(* C8.  union, intersection and difference return a new instance holding   *)
(* the set-theoretic result and leave every existing instance, their       *)
(* operands included (which may be one and the same), as it was; a later   *)
(* add_pc, remove_pc, t_n or i_n changes no instance but its receiver, so  *)
(* a result and its operands never change each other.                      *)

C8_NewInstance ==
    [][/\ (last'.op \in Combiners)
            => /\ last'.result \in Existing' \ Existing
               /\ After(last'.result) =
                     Combined(last'.op, View(last'.self), View(last'.other))
               /\ \A k \in Existing : After(k) = View(k)
       /\ (last'.op \in Mutators)
            => \A k \in Existing \ {last'.self} : After(k) = View(k)
      ]_vars

\* The union of two different instances has been given an element that
\* neither operand holds.
C8_Witness ==
    /\ last.op = "add_pc" /\ last.status = "ok"
    /\ origin[last.self].op = "union"
    /\ origin[last.self].self # origin[last.self].other
    /\ View(last.self) #
          View(origin[last.self].self) \cup View(origin[last.self].other)

(* C9.  remove_pc(pc) never fails; for a pc that is not a member, in       *)
(* 0..11 or not, it leaves the elements as they were, and for a member it  *)
(* removes pc and nothing else.                                            *)

C9_RemovePc ==
    [][(last'.op = "remove_pc")
          => /\ last'.status = "ok"
             /\ After(last'.self) = View(last'.self) \ {last'.args[1]}
             /\ \A k \in Existing \ {last'.self} : After(k) = View(k)
             /\ Existing' = Existing
      ]_vars

\* An integer outside 0..11 was removed from a non-empty instance.
C9_Witness ==
    /\ last.op = "remove_pc" /\ last.status = "ok"
    /\ ~InRange(last.args[1])
    /\ View(last.self) # {}

(* C10.  For a non-empty X, prime_form returns the candidate of minimum    *)
(* score (the sum of 2^value) among the 2*|X| candidates, a candidate      *)
(* being the ascending (b - a) mod 12 over all b for one element a of X or *)
(* of its inversion; it is a transposition-side candidate when the least   *)
(* transposition-side score is not greater than the least inversion-side   *)
(* score; and it is the same for every iteration order.                    *)

C10_PrimeForm ==
    (last.op = "prime_form" /\ View(last.self) # {})
    => LET S == View(last.self)
           R == {ret[m] : m \in 1..Len(ret)}
       IN /\ last.status = "ok"
          /\ ret = Ascending(R)
          /\ R \in CandidatesT(S) \cup CandidatesI(S)
          /\ \A c \in CandidatesT(S) \cup CandidatesI(S) : Weight(R) <= Weight(c)
          /\ LeastWeight(CandidatesT(S)) <= LeastWeight(CandidatesI(S))
                => R \in CandidatesT(S) /\ Weight(R) = LeastWeight(CandidatesT(S))
          /\ \A r \in PrimeFormOf(S) : r = Returned(ret)

\* The prime form of {0,2,3} is an inversion-side candidate.
C10_Witness ==
    /\ last.op = "prime_form" /\ View(last.self) = {0, 2, 3}
    /\ ret = <<0, 1, 3>>

====
